---- MODULE Spec2Model ----
(***************************************************************************)
(* The blog index page (src/unnamed/part_006): tag filter, tag search and  *)
(* the synchronisation of the selected tags with the URL's `tags`          *)
(* parameter.  A string is a sequence of one-character strings; a URL is   *)
(* kept as the serialised value of its `tags` parameter, so that reading   *)
(* it (searchParams.get) and writing it (searchParams.set) are the         *)
(* decoding and the encoding the platform does.                            *)
(***************************************************************************)
EXTENDS Integers, Sequences, FiniteSets, TLC

(* ----------------------------- strings -------------------------------- *)

\* UTF-16 code units of the characters the model's strings are made of.
CodeUnit ==
  [c \in {" ", "%", "+", ",", "-", "0", "2", "5", "B", "C", "D", "G", "I", "O",
          "P", "S", "Y", "a", "b", "c", "d", "e", "g", "h", "i", "l", "m", "n",
          "o", "p", "s", "t", "y"} |->
     CASE c = " " -> 32 [] c = "%" -> 37 [] c = "+" -> 43 [] c = "," -> 44
       [] c = "-" -> 45
       [] c = "0" -> 48 [] c = "2" -> 50 [] c = "5" -> 53
       [] c = "B" -> 66 [] c = "C" -> 67 [] c = "D" -> 68 [] c = "G" -> 71
       [] c = "I" -> 73 [] c = "O" -> 79 [] c = "P" -> 80 [] c = "S" -> 83 [] c = "Y" -> 89
       [] c = "a" -> 97 [] c = "b" -> 98 [] c = "c" -> 99 [] c = "d" -> 100
       [] c = "e" -> 101 [] c = "g" -> 103 [] c = "h" -> 104
       [] c = "i" -> 105 [] c = "l" -> 108 [] c = "m" -> 109
       [] c = "n" -> 110 [] c = "o" -> 111 [] c = "p" -> 112
       [] c = "s" -> 115 [] c = "t" -> 116 [] c = "y" -> 121]

Alphabet == DOMAIN CodeUnit

CharOf(n) == CHOOSE c \in Alphabet : CodeUnit[c] = n

Range(s) == {s[i] : i \in 1..Len(s)}

\* String.prototype.toLowerCase, one character: A..Z (65..90) move by 32.
ToLowerChar(c) ==
  IF CodeUnit[c] >= 65 /\ CodeUnit[c] <= 90 THEN CharOf(CodeUnit[c] + 32) ELSE c

ToLowerCase(s) == [i \in 1..Len(s) |-> ToLowerChar(s[i])]

\* String.prototype.includes: `sub` occurs in `s` at some offset.
Includes(s, sub) ==
  \E off \in 0..(Len(s) - Len(sub)) : SubSeq(s, off + 1, off + Len(sub)) = sub

IsWhiteSpace(c) == c = " "

RECURSIVE TrimStart(_)
TrimStart(s) ==
  IF s # <<>> /\ IsWhiteSpace(Head(s)) THEN TrimStart(Tail(s)) ELSE s

RECURSIVE TrimEnd(_)
TrimEnd(s) ==
  IF s # <<>> /\ IsWhiteSpace(s[Len(s)]) THEN TrimEnd(SubSeq(s, 1, Len(s) - 1)) ELSE s

\* String.prototype.trim
Trim(s) == TrimEnd(TrimStart(s))

\* A string is truthy when it is not empty.
Truthy(s) == s # <<>>

\* String.prototype.split(','): the pieces between the commas, empty ones kept.
RECURSIVE SplitFrom(_, _, _)
SplitFrom(s, i, piece) ==
  IF i > Len(s) THEN <<piece>>
  ELSE IF s[i] = "," THEN <<piece>> \o SplitFrom(s, i + 1, <<>>)
  ELSE SplitFrom(s, i + 1, Append(piece, s[i]))

SplitComma(s) == SplitFrom(s, 1, <<>>)

\* Array.prototype.join(',')
RECURSIVE JoinComma(_)
JoinComma(list) ==
  IF list = <<>> THEN <<>>
  ELSE IF Len(list) = 1 THEN list[1]
  ELSE list[1] \o <<",">> \o JoinComma(Tail(list))

\* The default comparison of Array.prototype.sort: by UTF-16 code units.
RECURSIVE StrLess(_, _)
StrLess(a, b) ==
  IF b = <<>> THEN FALSE
  ELSE IF a = <<>> THEN TRUE
  ELSE IF CodeUnit[a[1]] # CodeUnit[b[1]] THEN CodeUnit[a[1]] < CodeUnit[b[1]]
  ELSE StrLess(Tail(a), Tail(b))

RECURSIVE InsertSorted(_, _)
InsertSorted(list, x) ==
  IF list = <<>> THEN <<x>>
  ELSE IF StrLess(x, list[1]) THEN <<x>> \o list
  ELSE <<list[1]>> \o InsertSorted(Tail(list), x)

RECURSIVE SortStrings(_)
SortStrings(list) ==
  IF list = <<>> THEN <<>>
  ELSE InsertSorted(SortStrings(SubSeq(list, 1, Len(list) - 1)), list[Len(list)])

\* new Set(array), as Array.from lists it: first occurrences, in order.
RECURSIVE Distinct(_)
Distinct(list) ==
  IF list = <<>> THEN <<>>
  ELSE LET front == Distinct(SubSeq(list, 1, Len(list) - 1))
           x     == list[Len(list)]
       IN IF x \in Range(front) THEN front ELSE Append(front, x)

(* ------------------------- URL query values --------------------------- *)

\* A URL, as far as the page reads it: whether the query holds a `tags`
\* parameter and that parameter's serialised value.
NoTagsUrl == [hasTags |-> FALSE, raw |-> <<>>]

TagsUrl(raw) == [hasTags |-> TRUE, raw |-> raw]

IsAlphaNum(c) ==
  \/ CodeUnit[c] >= 48 /\ CodeUnit[c] <= 57
  \/ CodeUnit[c] >= 65 /\ CodeUnit[c] <= 90
  \/ CodeUnit[c] >= 97 /\ CodeUnit[c] <= 122

\* application/x-www-form-urlencoded serialisation of one character.
EncodeChar(c) ==
  IF IsAlphaNum(c) \/ c = "-" THEN <<c>>
  ELSE IF c = " " THEN <<"+">>
  ELSE IF c = "," THEN <<"%", "2", "C">>
  ELSE IF c = "+" THEN <<"%", "2", "B">>
  ELSE <<"%", "2", "5">>

RECURSIVE FormEncode(_)
FormEncode(s) ==
  IF s = <<>> THEN <<>> ELSE EncodeChar(Head(s)) \o FormEncode(Tail(s))

\* The percent escapes of the model's alphabet.
PercentEscapes ==
  {<<<<"2", "0">>, " ">>, <<<<"2", "C">>, ",">>, <<<<"2", "B">>, "+">>,
   <<<<"2", "5">>, "%">>}

\* application/x-www-form-urlencoded parsing of a value: `+` is a space, a
\* valid percent escape is its character, anything else stands for itself.
RECURSIVE FormDecode(_)
FormDecode(s) ==
  IF s = <<>> THEN <<>>
  ELSE IF Head(s) = "+" THEN <<" ">> \o FormDecode(Tail(s))
  ELSE IF Head(s) = "%" /\ Len(s) >= 3
          /\ \E e \in PercentEscapes : e[1] = SubSeq(s, 2, 3)
       THEN LET e == CHOOSE e \in PercentEscapes : e[1] = SubSeq(s, 2, 3)
            IN <<e[2]>> \o FormDecode(SubSeq(s, 4, Len(s)))
  ELSE <<Head(s)>> \o FormDecode(Tail(s))

\* encodeURIComponent, one character: letters, digits and `-` stand for
\* themselves, every other character of the model's alphabet is percent-escaped.
EncodeURIComponentChar(c) ==
  IF IsAlphaNum(c) \/ c = "-" THEN <<c>>
  ELSE IF c = " " THEN <<"%", "2", "0">>
  ELSE IF c = "," THEN <<"%", "2", "C">>
  ELSE IF c = "+" THEN <<"%", "2", "B">>
  ELSE <<"%", "2", "5">>

RECURSIVE EncodeURIComponent(_)
EncodeURIComponent(s) ==
  IF s = <<>> THEN <<>>
  ELSE EncodeURIComponentChar(Head(s)) \o EncodeURIComponent(Tail(s))

\* url.searchParams.has('tags') and url.searchParams.get('tags')
SearchParamsHas(url) == url.hasTags

SearchParamsGet(url) == FormDecode(url.raw)

\* url.searchParams.set('tags', value) and url.searchParams.delete('tags')
SearchParamsSet(url, value) == TagsUrl(FormEncode(value))

SearchParamsDelete(url) == NoTagsUrl

(* --------------------------- the feature card ------------------------- *)

\* The literal text of get_url's template, kept as one element in front of the
\* characters of the encoded name.
BlogTagsPath == "/blog?tags="

\* get_url, had the name been put into the link as it is.
get_urlUnencoded(card) ==
  IF ~card.hasName \/ ~Truthy(card.name) \/ Len(card.name) = 0
  THEN <<>>
  ELSE <<BlogTagsPath>> \o card.name

\* function get_url(): the card's href.
get_url(card) ==
  IF ~card.hasName \/ ~Truthy(card.name) \/ Len(card.name) = 0
  THEN <<>>
  ELSE <<BlogTagsPath>> \o EncodeURIComponent(card.name)

\* The URL the blog page is entered with through a link: what follows
\* `tags=` is the parameter's serialised value.
UrlOfHref(href) ==
  IF href # <<>> /\ Head(href) = BlogTagsPath
  THEN TagsUrl(Tail(href))
  ELSE NoTagsUrl

(* --------------------------- the page's data -------------------------- *)

Python == <<"P", "y", "t", "h", "o", "n">>

SystemDesign == <<"S", "y", "s", "t", "e", "m", " ", "D", "e", "s", "i", "g", "n">>

DIY == <<"D", "I", "Y">>

Golang == <<"G", "o", "l", "a", "n", "g">>

\* const featuredTags = ['Python', 'System Design', 'DIY']
featuredTags == <<Python, SystemDesign, DIY>>

\* .slice(0, 10)
SearchLimit == 10

\* A post, as far as the page reads it: its slug and its optional tag list.
Post(slug, tags) == [slug |-> slug, hasTags |-> TRUE, tags |-> tags]

UntaggedPost(slug) == [slug |-> slug, hasTags |-> FALSE, tags |-> <<>>]

\* Posts with three tags between them, one of them not featured, and a post
\* without a tag list.  No post carries the featured tag DIY.
ScenarioPosts ==
  << Post("pt1", <<Python, SystemDesign>>),
     Post("pt2", <<Golang>>),
     Post("pt3", <<Python>>),
     UntaggedPost("pt4") >>

\* Twelve tags beside the featured ones, given out of order and twice.
ManyTagsPosts ==
  << Post("m1", << <<"G", "t">>, <<"G", "s">>, <<"G", "o">>, <<"G", "n">>,
                   <<"G", "m">>, <<"G", "l">>, SystemDesign >>),
     Post("m2", << <<"G", "i">>, <<"G", "h">>, <<"G", "e">>, <<"G", "d">>,
                   <<"G", "a">>, <<"G", "t">>, <<"g", "o">> >>) >>

\* A single post.
OnePost == << Post("solo", <<Python>>) >>

NoPosts == <<>>

\* Two featured tags, in the order of the tag index, which is not the order of
\* featuredTags, and a tag that differs from one of them in case only.
FeaturedPosts ==
  << Post("f1", <<DIY, <<"d", "i", "y">>, Python>>) >>

\* Tags the URL has to escape: one with a space in front and a plus sign, one
\* that reads like a percent escape, one with a comma in it.
SpacedPlusTag == <<" ", "g", "+">>

PercentTag == <<"g", "%", "2", "C">>

CommaTag == <<"g", ",", "y">>

OddTagsPosts ==
  << Post("odd1", <<SpacedPlusTag, CommaTag>>),
     Post("odd2", <<PercentTag, SpacedPlusTag>>) >>

\* A feature card, as far as get_url reads it: its optional name.
Named(name) == [hasName |-> TRUE, name |-> name]

Unnamed == [hasName |-> FALSE, name |-> <<>>]

\* The start of 'DYI - Learning By Doing'.
DyiName == <<"D", "Y", "I", " ", "-", " ", "D">>

\* The feature cards of the home page: names of features.ts, names the link
\* has to escape, a blank name, an empty name and a card without a name.
Cards ==
  { Named(Python), Named(SystemDesign), Named(DyiName), Named(SpacedPlusTag),
    Named(PercentTag), Named(CommaTag), Named(<<" ">>), Named(<<>>), Unnamed }

\* The pages the model is entered with: a post collection and the URL's
\* `tags` parameter as the address bar holds it.
Entries ==
  ({ScenarioPosts} \X {NoTagsUrl, TagsUrl(Python \o <<",">> \o Golang)})
  \cup ({OnePost} \X
          { TagsUrl(<<>>),
            TagsUrl(Python \o <<",", ",", "+", ",">> \o DIY),
            TagsUrl(DIY \o <<",">> \o DIY),
            TagsUrl(<<"Y", "o">>),
            TagsUrl(<<"S", "y", "s", "t", "e", "m", "%", "2", "0",
                      "D", "e", "s", "i", "g", "n">>) })
  \cup ({NoPosts} \X {NoTagsUrl, TagsUrl(Python)})

\* The pages the search box is exercised on: tag indexes of twelve, of three
\* and of no tags beside the featured ones, and one of featured tags alone.
SearchEntries ==
  {ManyTagsPosts, ScenarioPosts, NoPosts, FeaturedPosts} \X {NoTagsUrl}

\* The pages the URL round trip is exercised on: tags the URL has to escape,
\* entered with no parameter, with one of the tags, and with a value that ends
\* in a broken percent escape and names no tag of the posts.
UrlEntries ==
  {OddTagsPosts} \X
    { NoTagsUrl,
      TagsUrl(<<"g", "%", "2", "5", "2", "C">>),
      TagsUrl(<<"y", "%", "2">>) }

\* What the user types into the search box in SpecUrl.
UrlQueries == { <<>>, <<"g">> }

\* What the user types into the search box.
Queries ==
  { <<>>, <<" ">>, <<"g">>, <<" ", "g">>, <<"g", "O">>, <<"y">> }

\* The most tags the user picks from the results panel in SpecSearch.
MaxPicked == 1

\* The most blur timers the model keeps pending at once.
MaxTimers == 2

\* The most tags selected at once in SpecUrl.
MaxJoined == 2

(* ------------------------------ the state ----------------------------- *)

VARIABLES
  browser,            \* $app/environment's browser
  posts,              \* data.posts
  allTags,            \* $: allTags
  selectedTags,       \* let selectedTags
  filteredPosts,      \* let filteredPosts
  searchQuery,        \* let searchQuery
  showSearchResults,  \* let showSearchResults
  searchResults,      \* let searchResults
  pageUrl,            \* $page.url
  pendingNav,         \* the goto() that has not reached the page store yet
  hideTimers,         \* the setTimeout callbacks of handleSearchBlur not run yet
  historyLength,      \* history.length: the entries of the session history
  scrolledToTop,      \* a navigation has reset the scroll position
  last,               \* the operation that led to this state and what it started from
  \* the load-balancing chart (src/unnamed/part_001)
  loading,            \* let loading
  error,              \* let error
  chartContainer,     \* let chartContainer: the element is bound
  chartPc,            \* where loadData stands
  responses,          \* how the two fetch() calls of loadData end
  drawTimer,          \* the setTimeout callback of loadData has not run yet
  drawn,              \* the charts drawChart has put into the container
  loadingWrites,      \* the assignments `loading = false` done so far
  destroyed           \* the chart component has been destroyed

\* The variables of the blog index page and of the session it runs in.
blogVars ==
  << browser, posts, allTags, selectedTags, filteredPosts, searchQuery,
     showSearchResults, searchResults, pageUrl, pendingNav, hideTimers,
     historyLength, scrolledToTop, last >>

\* The variables of the chart component.
chartVars ==
  << loading, error, chartContainer, chartPc, responses, drawTimer, drawn,
     loadingWrites, destroyed >>

vars ==
  << browser, posts, allTags, selectedTags, filteredPosts, searchQuery,
     showSearchResults, searchResults, pageUrl, pendingNav, hideTimers,
     historyLength, scrolledToTop, last,
     loading, error, chartContainer, chartPc, responses, drawTimer, drawn,
     loadingWrites, destroyed >>

(* ------------------------ the reactive statements --------------------- *)

\* post.tags || []
TagsOrEmpty(post) == IF post.hasTags THEN post.tags ELSE <<>>

\* post.tags?.includes(tag)
PostHasTag(post, tag) == post.hasTags /\ tag \in Range(post.tags)

RECURSIVE FlatMapTags(_)
FlatMapTags(ps) ==
  IF ps = <<>> THEN <<>> ELSE TagsOrEmpty(Head(ps)) \o FlatMapTags(Tail(ps))

\* ComputeAllTags, had the tags been left in the order of the posts.
ComputeAllTagsUnsorted(ps) == Distinct(FlatMapTags(ps))

\* $: allTags = Array.from(new Set(posts.flatMap(post => post.tags || []))).sort()
ComputeAllTags(ps) == SortStrings(Distinct(FlatMapTags(ps)))

\* availableFeaturedTags, had allTags been filtered by featuredTags.
availableFeaturedTagsInIndexOrder ==
  SelectSeq(allTags, LAMBDA tag : tag \in Range(featuredTags))

\* $: availableFeaturedTags = featuredTags.filter(tag => allTags.includes(tag))
availableFeaturedTags ==
  SelectSeq(featuredTags, LAMBDA tag : tag \in Range(allTags))

\* ParseUrlTags, had the filter tested the entry and not its trimmed form.
ParseUrlTagsKeepsBlank(urlTags) ==
  SelectSeq(SplitComma(urlTags), LAMBDA tag : Truthy(tag))

\* ParseUrlTags, had the entries been trimmed as well as tested.
ParseUrlTagsTrimmed(urlTags) ==
  LET kept == SelectSeq(SplitComma(urlTags), LAMBDA tag : Truthy(Trim(tag)))
  IN [i \in 1..Len(kept) |-> Trim(kept[i])]

\* urlTags.split(',').filter(tag => tag.trim())
ParseUrlTags(urlTags) ==
  SelectSeq(SplitComma(urlTags), LAMBDA tag : Truthy(Trim(tag)))

\* InitializeFromUrl, had the statement not tested `browser`.
InitializeFromUrlOnServer(isBrowser, url, sel) ==
  IF SearchParamsHas(url)
  THEN LET urlTags == SearchParamsGet(url)
       IN IF Truthy(urlTags) THEN ParseUrlTags(urlTags) ELSE sel
  ELSE sel

\* $: if (browser && $page.url.searchParams.has('tags')) { ... }
\* the value of selectedTags after the statement has run.
InitializeFromUrl(isBrowser, url, sel) ==
  IF isBrowser /\ SearchParamsHas(url)
  THEN LET urlTags == SearchParamsGet(url)
       IN IF Truthy(urlTags) THEN ParseUrlTags(urlTags) ELSE sel
  ELSE sel

\* SearchMatches, had the query been left as typed.
SearchMatchesAsTyped(tag, query) ==
  /\ Includes(ToLowerCase(tag), query)
  /\ tag \notin Range(featuredTags)

\* tag.toLowerCase().includes(searchQuery.toLowerCase()) && !featuredTags.includes(tag)
SearchMatches(tag, query) ==
  /\ Includes(ToLowerCase(tag), ToLowerCase(query))
  /\ tag \notin Range(featuredTags)

\* SliceFirst, had the slice been left out.
SliceFirstKeepsAll(list, n) == list

\* .slice(0, n)
SliceFirst(list, n) == SubSeq(list, 1, IF Len(list) < n THEN Len(list) ELSE n)

\* $: { if (searchQuery.trim()) { searchResults = ...; } else { searchResults = []; } }
ComputeSearchResults(tags, query) ==
  IF Truthy(Trim(query))
  THEN SliceFirst(SelectSeq(tags, LAMBDA tag : SearchMatches(tag, query)), SearchLimit)
  ELSE <<>>

\* ComputeShowSearchResults, had the panel been shown for every query that is
\* not blank.
ComputeShowSearchResultsForAnyQuery(tags, query) == Truthy(Trim(query))

\* showSearchResults, as the same statement sets it.
ComputeShowSearchResults(tags, query) ==
  IF Truthy(Trim(query))
  THEN Len(ComputeSearchResults(tags, query)) > 0
  ELSE FALSE

\* ComputeFilteredPosts, had it asked for some selected tag instead of every one.
ComputeFilteredPostsAnyTag(ps, sel) ==
  IF Len(sel) = 0
  THEN ps
  ELSE SelectSeq(ps, LAMBDA post : \E i \in 1..Len(sel) : PostHasTag(post, sel[i]))

\* ComputeFilteredPosts, had the selected tags that no post carries been left
\* out of the filter.
ComputeFilteredPostsKnownTags(ps, sel) ==
  LET known == SelectSeq(sel, LAMBDA tag :
                 \E k \in 1..Len(ps) : PostHasTag(ps[k], tag))
  IN IF Len(known) = 0
     THEN ps
     ELSE SelectSeq(ps, LAMBDA post :
            \A i \in 1..Len(known) : PostHasTag(post, known[i]))

\* $: { if (selectedTags.length === 0) { filteredPosts = posts; } else { ... } }
ComputeFilteredPosts(ps, sel) ==
  IF Len(sel) = 0
  THEN ps
  ELSE SelectSeq(ps, LAMBDA post : \A i \in 1..Len(sel) : PostHasTag(post, sel[i]))

(* ------------------------------ the chart ----------------------------- *)

\* How a fetch() of loadData ends: the promise is rejected, or it gives a
\* response that is ok or not; reading the response's text works or fails.
Response(outcome, textFails) == [outcome |-> outcome, textFails |-> textFails]

Responses ==
  { Response(o, f) : o \in {"rejected", "notOk", "ok"}, f \in BOOLEAN }

\* let error = null
NoError == "null"

\* The message of the error loadData throws itself.
FailedToFetchFiles == "Failed to fetch files"

\* The component as its declarations leave it: loading, no error, no element.
ChartCreated(network) ==
  /\ loading = TRUE
  /\ error = NoError
  /\ chartContainer = FALSE
  /\ chartPc = "created"
  /\ responses = network
  /\ drawTimer = FALSE
  /\ drawn = 0
  /\ loadingWrites = 0
  /\ destroyed = FALSE

\* A page without the chart.
NoChart == ChartCreated(<<Response("ok", FALSE), Response("ok", FALSE)>>)

\* {#if loading} ... {:else if error} ... {:else} <div bind:this={chartContainer}>
\* the element is bound when the third branch is rendered.
ChartBranchRendered(isLoading, err, isDestroyed) ==
  ~isDestroyed /\ ~isLoading /\ err = NoError

\* The catch block of loadData, had it left `loading` as it was.
LoadDataCatchKeepsLoading(message) ==
  /\ error' = message
  /\ chartPc' = "done"
  /\ chartContainer' = ChartBranchRendered(loading, error', destroyed)
  /\ UNCHANGED <<loading, loadingWrites, responses, drawTimer, drawn, destroyed>>

\* catch (err) { error = err.message; loading = false; }
LoadDataCatch(message) ==
  /\ error' = message
  /\ loading' = FALSE
  /\ loadingWrites' = loadingWrites + 1
  /\ chartPc' = "done"
  /\ chartContainer' = ChartBranchRendered(loading', error', destroyed)
  /\ UNCHANGED <<responses, drawTimer, drawn, destroyed>>

\* onMount(() => { loadData(); }): the two fetches are started.  onMount runs
\* in a browser only.
ChartOnMount ==
  /\ browser
  /\ chartPc = "created"
  /\ chartPc' = "fetching"
  /\ UNCHANGED << loading, error, chartContainer, responses, drawTimer, drawn,
                  loadingWrites, destroyed >>
  /\ UNCHANGED blogVars

\* await Promise.all([fetch(...), fetch(...)]) ends, and the responses are
\* tested.
FetchesSettle ==
  /\ chartPc = "fetching"
  /\ IF \E i \in 1..2 : responses[i].outcome = "rejected"
     THEN LoadDataCatch("rejected")
     ELSE IF \E i \in 1..2 : responses[i].outcome # "ok"
     THEN LoadDataCatch(FailedToFetchFiles)
     ELSE /\ chartPc' = "readingLeastConn"
          /\ UNCHANGED << loading, error, chartContainer, responses, drawTimer,
                          drawn, loadingWrites, destroyed >>
  /\ UNCHANGED blogVars

\* await leastConnResponse.text() ends.
LeastConnTextSettles ==
  /\ chartPc = "readingLeastConn"
  /\ IF responses[1].textFails
     THEN LoadDataCatch("text failed")
     ELSE /\ chartPc' = "readingRoundRobin"
          /\ UNCHANGED << loading, error, chartContainer, responses, drawTimer,
                          drawn, loadingWrites, destroyed >>
  /\ UNCHANGED blogVars

\* await roundRobinResponse.text() ends; the texts are parsed, which does not
\* throw on a string; loading = false; setTimeout(() => drawChart(...), 100).
RoundRobinTextSettles ==
  /\ chartPc = "readingRoundRobin"
  /\ IF responses[2].textFails
     THEN LoadDataCatch("text failed")
     ELSE /\ loading' = FALSE
          /\ loadingWrites' = loadingWrites + 1
          /\ drawTimer' = TRUE
          /\ chartPc' = "done"
          /\ chartContainer' = ChartBranchRendered(loading', error, destroyed)
          /\ UNCHANGED <<error, responses, drawn, destroyed>>
  /\ UNCHANGED blogVars

\* The callback of loadData's setTimeout runs drawChart:
\* if (!chartContainer) return; ... chartContainer.appendChild(canvas)
DrawChartTimerFires ==
  /\ drawTimer
  /\ drawTimer' = FALSE
  /\ drawn' = IF chartContainer THEN drawn + 1 ELSE drawn
  /\ UNCHANGED << loading, error, chartContainer, chartPc, responses,
                  loadingWrites, destroyed >>
  /\ UNCHANGED blogVars

\* The user leaves the page: the component is destroyed, and bind:this gives
\* the element up.  loadData goes on where it stands.
ChartDestroyed ==
  /\ browser
  /\ chartPc # "created"
  /\ ~destroyed
  /\ destroyed' = TRUE
  /\ chartContainer' = FALSE
  /\ UNCHANGED << loading, error, chartPc, responses, drawTimer, drawn,
                  loadingWrites >>
  /\ UNCHANGED blogVars

(* ------------------------------ operations ---------------------------- *)

\* An operation is one event handler together with the reactive statements
\* its assignments invalidate, which run before the next event.  Handlers are
\* bound to DOM events, so they run in a browser only; each is enabled where
\* the markup shows the control it is bound to.  A goto() ends later, as an
\* event of its own (NavigationCompletes), and a later goto() supersedes it.

\* What `last` records: the operation that led to the state and its argument.
\* For toggleTag, `sel` is selectedTags as it was before; `twice` says that the
\* operation before it was toggleTag of the same tag, and `sel2` is then
\* selectedTags before that first toggleTag.  For updateSearchQuery,
\* handleSearchFocus, handleSearchBlur and the callback of a blur's timer,
\* `shown` is showSearchResults as it was before.  For a navigation, `by` names the
\* operation whose goto() it delivers.  For a feature card and for the page
\* entered through it, `tag` is the card's name, `named` says that the card was
\* given one, and `href` is the card's link.
Did(op, tag) ==
  [ op |-> op, tag |-> tag, by |-> "", sel |-> <<>>, twice |-> FALSE,
    sel2 |-> <<>>, shown |-> FALSE, named |-> FALSE, href |-> <<>> ]

\* Toggled, had the tag been put in front.
ToggledPrepends(sel, tag) ==
  IF tag \in Range(sel)
  THEN SelectSeq(sel, LAMBDA t : t # tag)
  ELSE <<tag>> \o sel

\* Toggled, had only the first occurrence been removed.
ToggledRemovesFirst(sel, tag) ==
  IF tag \in Range(sel)
  THEN LET at == CHOOSE i \in 1..Len(sel) :
                   sel[i] = tag /\ \A j \in 1..(i - 1) : sel[j] # tag
       IN SubSeq(sel, 1, at - 1) \o SubSeq(sel, at + 1, Len(sel))
  ELSE Append(sel, tag)

\* The body of toggleTag: selectedTags after toggleTag(tag).
Toggled(sel, tag) ==
  IF tag \in Range(sel)
  THEN SelectSeq(sel, LAMBDA t : t # tag)
  ELSE Append(sel, tag)

\* PickedFromSearch, had the tag been appended without the test.
PickedFromSearchAlways(sel, tag) == Append(sel, tag)

\* The assignment of selectTagFromSearch: selectedTags after the tag was picked.
PickedFromSearch(sel, tag) ==
  IF tag \notin Range(sel) THEN Append(sel, tag) ELSE sel

\* UpdatedUrl, had the parameter been set whatever selectedTags holds.
UpdatedUrlAlwaysSets(url, sel) == SearchParamsSet(url, JoinComma(sel))

\* The URL updateURL hands to goto().
UpdatedUrl(url, sel) ==
  IF Len(sel) > 0
  THEN SearchParamsSet(url, JoinComma(sel))
  ELSE SearchParamsDelete(url)

\* UpdateURL, had it read selectedTags as it was before the handler's assignment.
UpdateURLStale(sel, by) ==
  IF ~browser
  THEN pendingNav
  ELSE << [url |-> UpdatedUrl(pageUrl, selectedTags), by |-> by,
          replaceState |-> TRUE, noScroll |-> TRUE] >>

\* UpdateURL, had goto() been called without its options.
UpdateURLPushes(sel, by) ==
  IF ~browser
  THEN pendingNav
  ELSE << [url |-> UpdatedUrl(pageUrl, sel), by |-> by,
          replaceState |-> FALSE, noScroll |-> FALSE] >>

\* function updateURL(): pendingNav after it ran with selectedTags = sel.  A
\* goto() replaces the navigation that was still under way.
UpdateURL(sel, by) ==
  IF ~browser
  THEN pendingNav
  ELSE << [url |-> UpdatedUrl(pageUrl, sel), by |-> by,
          replaceState |-> TRUE, noScroll |-> TRUE] >>

\* The search statement runs again when searchQuery has been given another
\* value: searchResults and showSearchResults after an operation that sets
\* searchQuery to `query` and showSearchResults to `shown`.
SearchResultsAfter(query) ==
  IF query # searchQuery
  THEN ComputeSearchResults(allTags, query)
  ELSE searchResults

\* ShowSearchResultsAfter, had the statement's else branch left the panel as it was.
ShowSearchResultsAfterKeepsPanel(query, shown) ==
  IF query # searchQuery /\ Truthy(Trim(query))
  THEN ComputeShowSearchResults(allTags, query)
  ELSE shown

ShowSearchResultsAfter(query, shown) ==
  IF query # searchQuery
  THEN ComputeShowSearchResults(allTags, query)
  ELSE shown

\* The filter statement runs again when selectedTags has been assigned.
UrlAssignsSelectedTags(isBrowser, url) ==
  isBrowser /\ SearchParamsHas(url) /\ Truthy(SearchParamsGet(url))

\* on:click of a featured tag or of an active filter chip
toggleTag(tag) ==
  /\ browser
  /\ tag \in Range(availableFeaturedTags) \cup Range(selectedTags)
  /\ selectedTags' = Toggled(selectedTags, tag)
  /\ filteredPosts' = ComputeFilteredPosts(posts, selectedTags')
  /\ last' = [ Did("toggleTag", tag) EXCEPT
                 !.sel = selectedTags,
                 !.twice = (last.op = "toggleTag" /\ last.tag = tag),
                 !.sel2 = IF last.op = "toggleTag" /\ last.tag = tag
                          THEN last.sel ELSE <<>> ]
  /\ UNCHANGED chartVars
  /\ UNCHANGED << browser, posts, allTags, searchQuery, showSearchResults,
                  searchResults, pageUrl, pendingNav, hideTimers,
                  historyLength, scrolledToTop >>

\* on:click of an item of the results panel
selectTagFromSearch(tag) ==
  /\ browser
  /\ showSearchResults
  /\ tag \in Range(searchResults)
  /\ searchQuery' = <<>>
  /\ searchResults' = SearchResultsAfter(<<>>)
  /\ showSearchResults' = ShowSearchResultsAfter(<<>>, FALSE)
  /\ selectedTags' = PickedFromSearch(selectedTags, tag)
  /\ IF tag \notin Range(selectedTags)
     THEN /\ pendingNav' = UpdateURL(selectedTags', "selectTagFromSearch")
          /\ filteredPosts' = ComputeFilteredPosts(posts, selectedTags')
     ELSE UNCHANGED <<pendingNav, filteredPosts>>
  /\ last' = Did("selectTagFromSearch", tag)
  /\ UNCHANGED chartVars
  /\ UNCHANGED << browser, posts, allTags, pageUrl, hideTimers,
                  historyLength, scrolledToTop >>

\* {#if selectedTags.length > 0}: the "Clear Filters" button is rendered.
ShowsClearFiltersButton == Len(selectedTags) > 0

\* {#if filteredPosts.length === 0}: the no-results block with its "Show All
\* Posts" button is rendered.
ShowsShowAllPostsButton == Len(filteredPosts) = 0

\* on:click of "Clear Filters" or of "Show All Posts"
clearFilters ==
  /\ browser
  /\ ShowsClearFiltersButton \/ ShowsShowAllPostsButton
  /\ selectedTags' = <<>>
  /\ pendingNav' = UpdateURL(selectedTags', "clearFilters")
  /\ filteredPosts' = ComputeFilteredPosts(posts, selectedTags')
  /\ last' = Did("clearFilters", <<>>)
  /\ UNCHANGED chartVars
  /\ UNCHANGED << browser, posts, allTags, searchQuery, showSearchResults,
                  searchResults, pageUrl, hideTimers,
                  historyLength, scrolledToTop >>

\* updateSearchQuery, had the edit of the search box called updateURL.
updateSearchQueryRewritesUrl(query) ==
  /\ browser
  /\ searchQuery' = query
  /\ searchResults' = SearchResultsAfter(query)
  /\ showSearchResults' = ShowSearchResultsAfter(query, showSearchResults)
  /\ pendingNav' = UpdateURL(selectedTags, "updateSearchQuery")
  /\ last' = [Did("updateSearchQuery", query) EXCEPT !.shown = showSearchResults]
  /\ UNCHANGED chartVars
  /\ UNCHANGED << browser, posts, allTags, selectedTags, filteredPosts,
                  pageUrl, hideTimers, historyLength, scrolledToTop >>

\* bind:value={searchQuery}: the user edits the search box
updateSearchQuery(query) ==
  /\ browser
  /\ searchQuery' = query
  /\ searchResults' = SearchResultsAfter(query)
  /\ showSearchResults' = ShowSearchResultsAfter(query, showSearchResults)
  /\ last' = [Did("updateSearchQuery", query) EXCEPT !.shown = showSearchResults]
  /\ UNCHANGED chartVars
  /\ UNCHANGED << browser, posts, allTags, selectedTags, filteredPosts,
                  pageUrl, pendingNav, hideTimers,
                  historyLength, scrolledToTop >>

\* handleSearchFocus, had it shown the panel whatever the search holds.
handleSearchFocusAlwaysShows ==
  /\ browser
  /\ showSearchResults' = TRUE
  /\ last' = [Did("handleSearchFocus", <<>>) EXCEPT !.shown = showSearchResults]
  /\ UNCHANGED chartVars
  /\ UNCHANGED << browser, posts, allTags, selectedTags, filteredPosts,
                  searchQuery, searchResults, pageUrl, pendingNav, hideTimers,
                  historyLength, scrolledToTop >>

\* on:focus
handleSearchFocus ==
  /\ browser
  /\ showSearchResults' =
       IF Truthy(Trim(searchQuery)) /\ Len(searchResults) > 0
       THEN TRUE
       ELSE showSearchResults
  /\ last' = [Did("handleSearchFocus", <<>>) EXCEPT !.shown = showSearchResults]
  /\ UNCHANGED chartVars
  /\ UNCHANGED << browser, posts, allTags, selectedTags, filteredPosts,
                  searchQuery, searchResults, pageUrl, pendingNav, hideTimers,
                  historyLength, scrolledToTop >>

\* handleSearchBlur, had it hidden the panel at once.
handleSearchBlurHidesAtOnce ==
  /\ browser
  /\ hideTimers < MaxTimers
  /\ hideTimers' = hideTimers + 1
  /\ showSearchResults' = FALSE
  /\ last' = [Did("handleSearchBlur", <<>>) EXCEPT !.shown = showSearchResults]
  /\ UNCHANGED chartVars
  /\ UNCHANGED << browser, posts, allTags, selectedTags, filteredPosts,
                  searchQuery, searchResults, pageUrl, pendingNav,
                  historyLength, scrolledToTop >>

\* on:blur: setTimeout(..., 200)
handleSearchBlur ==
  /\ browser
  /\ hideTimers < MaxTimers
  /\ hideTimers' = hideTimers + 1
  /\ last' = [Did("handleSearchBlur", <<>>) EXCEPT !.shown = showSearchResults]
  /\ UNCHANGED chartVars
  /\ UNCHANGED << browser, posts, allTags, selectedTags, filteredPosts,
                  searchQuery, showSearchResults, searchResults, pageUrl,
                  pendingNav,
                  historyLength, scrolledToTop >>

\* HideTimerFires, had the callback left the panel as it was.
HideTimerFiresKeepsPanel ==
  /\ hideTimers > 0
  /\ hideTimers' = hideTimers - 1
  /\ showSearchResults' = showSearchResults
  /\ last' = [Did("hideTimer", <<>>) EXCEPT !.shown = showSearchResults]
  /\ UNCHANGED chartVars
  /\ UNCHANGED << browser, posts, allTags, selectedTags, filteredPosts,
                  searchQuery, searchResults, pageUrl, pendingNav,
                  historyLength, scrolledToTop >>

\* The callback of a blur's setTimeout runs.
HideTimerFires ==
  /\ hideTimers > 0
  /\ hideTimers' = hideTimers - 1
  /\ showSearchResults' = FALSE
  /\ last' = [Did("hideTimer", <<>>) EXCEPT !.shown = showSearchResults]
  /\ UNCHANGED chartVars
  /\ UNCHANGED << browser, posts, allTags, selectedTags, filteredPosts,
                  searchQuery, searchResults, pageUrl, pendingNav,
                  historyLength, scrolledToTop >>

\* The navigation of a goto() ends: the page store holds the new URL, and the
\* statements that read $page run again.  The navigation replaces the current
\* entry of the session history when goto() was given replaceState, and adds
\* an entry otherwise; it resets the scroll position unless goto() was given
\* noScroll.
NavigationCompletes ==
  /\ pendingNav # <<>>
  /\ pageUrl' = pendingNav[1].url
  /\ pendingNav' = <<>>
  /\ selectedTags' = InitializeFromUrl(browser, pageUrl', selectedTags)
  /\ filteredPosts' =
       IF UrlAssignsSelectedTags(browser, pageUrl')
       THEN ComputeFilteredPosts(posts, selectedTags')
       ELSE filteredPosts
  /\ historyLength' =
       IF pendingNav[1].replaceState THEN historyLength ELSE historyLength + 1
  /\ scrolledToTop' = (scrolledToTop \/ ~pendingNav[1].noScroll)
  /\ last' = [Did("navigated", <<>>) EXCEPT !.by = pendingNav[1].by]
  /\ UNCHANGED chartVars
  /\ UNCHANGED << browser, posts, allTags, searchQuery, showSearchResults,
                  searchResults, hideTimers >>

\* The component is created: the declarations run, then every reactive
\* statement once, in dependency order.
Mount(entries) ==
  \E entry \in entries, isBrowser \in BOOLEAN :
    /\ browser = isBrowser
    /\ posts = entry[1]
    /\ pageUrl = entry[2]
    /\ allTags = ComputeAllTags(posts)
    /\ selectedTags = InitializeFromUrl(browser, pageUrl, <<>>)
    /\ filteredPosts = ComputeFilteredPosts(posts, selectedTags)
    /\ searchQuery = <<>>
    /\ searchResults = ComputeSearchResults(allTags, searchQuery)
    /\ showSearchResults = ComputeShowSearchResults(allTags, searchQuery)
    /\ pendingNav = <<>>
    /\ hideTimers = 0
    /\ historyLength = 1
    /\ scrolledToTop = FALSE
    /\ NoChart
    /\ last = Did("mount", <<>>)

\* The home page shows a feature card; the blog page is not created yet, and
\* its variables hold what their declarations give them.
ShowFeatureCard(cards, collections) ==
  \E card \in cards, ps \in collections :
    /\ browser = TRUE
    /\ posts = ps
    /\ pageUrl = NoTagsUrl
    /\ allTags = <<>>
    /\ selectedTags = <<>>
    /\ filteredPosts = posts
    /\ searchQuery = <<>>
    /\ searchResults = <<>>
    /\ showSearchResults = FALSE
    /\ pendingNav = <<>>
    /\ hideTimers = 0
    /\ historyLength = 1
    /\ scrolledToTop = FALSE
    /\ NoChart
    /\ last = [ Did("card", card.name) EXCEPT
                  !.named = card.hasName, !.href = get_url(card) ]

\* The user follows the card's link to the blog page: the component is
\* created on the link's URL, as in Mount.  A link adds an entry to the
\* session history.  A card whose href is empty leads nowhere.
FollowFeatureCard ==
  /\ last.op = "card"
  /\ last.href # <<>>
  /\ \E isBrowser \in BOOLEAN : browser' = isBrowser
  /\ pageUrl' = UrlOfHref(last.href)
  /\ allTags' = ComputeAllTags(posts)
  /\ selectedTags' = InitializeFromUrl(browser', pageUrl', <<>>)
  /\ filteredPosts' = ComputeFilteredPosts(posts, selectedTags')
  /\ searchQuery' = <<>>
  /\ searchResults' = ComputeSearchResults(allTags', searchQuery')
  /\ showSearchResults' = ComputeShowSearchResults(allTags', searchQuery')
  /\ historyLength' = historyLength + 1
  /\ scrolledToTop' = TRUE
  /\ last' = [last EXCEPT !.op = "mount"]
  /\ UNCHANGED chartVars
  /\ UNCHANGED <<posts, pendingNav, hideTimers>>

Init == Mount(Entries)

Next ==
  \/ \E tag \in Range(allTags) \cup Range(selectedTags) : toggleTag(tag)
  \/ \E tag \in Range(allTags) : selectTagFromSearch(tag)
  \/ clearFilters
  \/ \E query \in Queries : updateSearchQuery(query)
  \/ handleSearchFocus
  \/ handleSearchBlur
  \/ HideTimerFires
  \/ NavigationCompletes

Spec == Init /\ [][Next]_vars

\* The search box alone, on large tag indexes: every operation that writes
\* searchQuery, searchResults or showSearchResults.
InitSearch == Mount(SearchEntries)

NextSearch ==
  \/ \E query \in Queries : updateSearchQuery(query)
  \/ \E tag \in Range(allTags) :
        Len(selectedTags) < MaxPicked /\ selectTagFromSearch(tag)
  \/ handleSearchFocus
  \/ handleSearchBlur
  \/ HideTimerFires

SpecSearch == InitSearch /\ [][NextSearch]_vars

\* The same, with the timers of the platform: a callback that setTimeout has
\* scheduled is run in the end.
SpecSearchFair == SpecSearch /\ WF_vars(HideTimerFires)

\* The tag filter and the URL alone, on tags the URL has to escape: every
\* operation that writes selectedTags or the URL, and the edit of the search
\* box that opens the results panel.
InitUrl == Mount(UrlEntries)

NextUrl ==
  \/ \E tag \in Range(selectedTags) : toggleTag(tag)
  \/ \E tag \in Range(allTags) :
        Len(selectedTags) < MaxJoined /\ selectTagFromSearch(tag)
  \/ clearFilters
  \/ \E query \in UrlQueries : updateSearchQuery(query)
  \/ NavigationCompletes

SpecUrl == InitUrl /\ [][NextUrl]_vars

\* The blog page entered through a feature card of the home page, and the
\* tag filter's buttons on it.
InitCard == ShowFeatureCard(Cards, {ScenarioPosts})

NextCard ==
  \/ FollowFeatureCard
  \/ /\ last.op # "card"
     /\ \/ \E tag \in Range(allTags) \cup Range(selectedTags) : toggleTag(tag)
        \/ clearFilters
        \/ NavigationCompletes

SpecCard == InitCard /\ [][NextCard]_vars

\* The chart component on a page of its own, in a browser and on the server,
\* with every way its two fetches can end.
InitChart ==
  /\ browser \in BOOLEAN
  /\ posts = NoPosts
  /\ pageUrl = NoTagsUrl
  /\ allTags = <<>>
  /\ selectedTags = <<>>
  /\ filteredPosts = posts
  /\ searchQuery = <<>>
  /\ searchResults = <<>>
  /\ showSearchResults = FALSE
  /\ pendingNav = <<>>
  /\ hideTimers = 0
  /\ historyLength = 1
  /\ scrolledToTop = FALSE
  /\ last = Did("chart", <<>>)
  /\ \E first \in Responses, second \in Responses :
       ChartCreated(<<first, second>>)

NextChart ==
  \/ ChartOnMount
  \/ FetchesSettle
  \/ LeastConnTextSettles
  \/ RoundRobinTextSettles
  \/ DrawChartTimerFires
  \/ ChartDestroyed

SpecChart == InitChart /\ [][NextChart]_vars

(* ------------------------------- claims ------------------------------- *)

\* `result` lists the elements of `source` at the indexes `keep`, in order.
KeptInOrder(result, source, keep) ==
  /\ Len(result) = Cardinality(keep)
  /\ \A i \in keep : result[Cardinality({j \in keep : j <= i})] = source[i]

NoDuplicates(list) ==
  \A i, j \in 1..Len(list) : list[i] = list[j] => i = j

\* The URL the page is at once every requested rewrite has been applied.
RewrittenUrl == IF pendingNav # <<>> THEN pendingNav[1].url ELSE pageUrl

\* The URL's `tags` parameter agrees with selectedTags.
UrlAgreesWith(url, sel) ==
  IF sel = <<>>
  THEN ~SearchParamsHas(url)
  ELSE SearchParamsHas(url) /\ SearchParamsGet(url) = JoinComma(sel)

\* C1: in every reachable state filteredPosts is exactly the posts that carry
\* every selected tag, in the order of posts; with no tag selected it is posts.
C1_FilteredPostsAreTheSupersets ==
  /\ KeptInOrder(filteredPosts, posts,
       { i \in 1..Len(posts) :
           \A t \in Range(selectedTags) :
             posts[i].hasTags /\ \E k \in 1..Len(posts[i].tags) : posts[i].tags[k] = t })
  /\ selectedTags = <<>> => filteredPosts = posts

C1_Witness ==
  /\ last.op = "toggleTag"
  /\ posts = ScenarioPosts
  /\ selectedTags = <<Python>>
  /\ filteredPosts = <<posts[1], posts[3]>>

\* C2: every user action that changes selectedTags in a browser leaves the URL
\* rewritten: its `tags` parameter is the comma-joined selectedTags, or is
\* absent when selectedTags is empty.
C2_UserActionRewritesUrl ==
  [][ ( /\ browser
        /\ last'.op \in {"toggleTag", "selectTagFromSearch", "clearFilters"}
        /\ selectedTags' # selectedTags )
      => UrlAgreesWith(RewrittenUrl, selectedTags)' ]_vars

\* C3: toggleTag(tag) removes a selected tag and keeps the order of the rest,
\* appends a tag that was not selected and keeps the others in place, and
\* changes the membership of no other tag.
C3_ToggleRemovesOrAppends ==
  last.op = "toggleTag" =>
    /\ Range(selectedTags) \ {last.tag} = Range(last.sel) \ {last.tag}
    /\ IF \E i \in 1..Len(last.sel) : last.sel[i] = last.tag
       THEN KeptInOrder(selectedTags, last.sel,
                        {i \in 1..Len(last.sel) : last.sel[i] # last.tag})
       ELSE /\ Len(selectedTags) = Len(last.sel) + 1
            /\ selectedTags[Len(selectedTags)] = last.tag
            /\ \A i \in 1..Len(last.sel) : selectedTags[i] = last.sel[i]

C3_Witness ==
  /\ last.op = "toggleTag"
  /\ last.sel = <<Python, SystemDesign, Golang>>
  /\ last.tag = SystemDesign
  /\ selectedTags = <<Python, Golang>>

\* C4 as stated: toggleTag(t) twice in a row restores selectedTags, members
\* and order.
C4_DoubleToggleRestoresSequence ==
  (last.op = "toggleTag" /\ last.twice) => selectedTags = last.sel2

\* C4 as amended: toggleTag(t) twice in a row restores the set of selected
\* tags; it restores the sequence when t was not selected, or was selected
\* once and last.
C4_DoubleToggleRestoresMembers ==
  (last.op = "toggleTag" /\ last.twice) =>
    /\ Range(selectedTags) = Range(last.sel2)
    /\ ( \/ last.tag \notin Range(last.sel2)
         \/ {i \in 1..Len(last.sel2) : last.sel2[i] = last.tag} = {Len(last.sel2)} )
       => selectedTags = last.sel2

C4_Witness ==
  /\ last.op = "toggleTag"
  /\ last.twice
  /\ last.tag = Python
  /\ last.sel2 = <<Python, SystemDesign>>
  /\ selectedTags = <<SystemDesign, Python>>

\* C5: clearFilters empties selectedTags and asks for a URL without the `tags`
\* parameter (not one with an empty value); when that navigation reaches the
\* page the URL has no `tags` parameter and selectedTags is left as it was.
C5_ClearFiltersRemovesTheParameter ==
  /\ [](last.op = "clearFilters" =>
          /\ selectedTags = <<>>
          /\ pendingNav # <<>>
          /\ pendingNav[1].url = NoTagsUrl)
  /\ [][ (last'.op = "navigated" /\ last'.by = "clearFilters") =>
           /\ pageUrl' = NoTagsUrl
           /\ selectedTags' = selectedTags ]_vars

C5_Witness ==
  /\ last.op = "navigated"
  /\ last.by = "clearFilters"
  /\ pageUrl = NoTagsUrl
  /\ selectedTags = <<>>
  /\ filteredPosts = ScenarioPosts

\* C6: selectFromSearch(t) always leaves searchQuery empty, the panel hidden and
\* searchResults empty; when t is already selected it leaves selectedTags and
\* the URL as they were.
C6_SelectFromSearchClearsTheSearch ==
  [][ last'.op = "selectTagFromSearch" =>
        /\ searchQuery' = <<>>
        /\ ~showSearchResults'
        /\ searchResults' = <<>>
        /\ (last'.tag \in Range(selectedTags) =>
              UNCHANGED <<selectedTags, pageUrl, pendingNav>>) ]_vars

C6_Witness ==
  /\ last.op = "selectTagFromSearch"
  /\ last.tag = Golang
  /\ selectedTags = <<Python, Golang>>
  /\ pendingNav = <<>>
  /\ searchQuery = <<>>
  /\ ~showSearchResults

\* C7: selectFromSearch(t) with t not selected appends t, once and at the end,
\* and asks for a URL whose `tags` parameter is the comma-joined new
\* selectedTags.
C7_SelectFromSearchAppendsAndRewrites ==
  [][ (last'.op = "selectTagFromSearch" /\ last'.tag \notin Range(selectedTags)) =>
        /\ Len(selectedTags') = Len(selectedTags) + 1
        /\ \A i \in 1..Len(selectedTags) : selectedTags'[i] = selectedTags[i]
        /\ {i \in 1..Len(selectedTags') : selectedTags'[i] = last'.tag}
             = {Len(selectedTags')}
        /\ pendingNav' # <<>>
        /\ SearchParamsHas(pendingNav'[1].url)
        /\ SearchParamsGet(pendingNav'[1].url) = JoinComma(selectedTags') ]_vars

C7_Witness ==
  /\ last.op = "selectTagFromSearch"
  /\ selectedTags = <<SystemDesign, Golang>>
  /\ pendingNav # <<>>
  /\ pendingNav[1].by = "selectTagFromSearch"
  /\ pendingNav[1].url.raw =
       <<"S", "y", "s", "t", "e", "m", "+", "D", "e", "s", "i", "g", "n",
         "%", "2", "C", "G", "o", "l", "a", "n", "g">>

\* C8: in every reachable state searchResults holds no featured tag and at
\* most 10 entries.
C8_SearchResultsCappedAndUnfeatured ==
  /\ Len(searchResults) <= 10
  /\ \A i \in 1..Len(searchResults) :
       \A k \in 1..Len(featuredTags) : searchResults[i] # featuredTags[k]

C8_Witness ==
  /\ posts = ManyTagsPosts
  /\ searchQuery = <<"g">>
  /\ Len(allTags) = 13
  /\ Len(searchResults) = 10
  /\ SystemDesign \in Range(allTags)

\* The two characters are the same letter in either case, or the same character.
SameIgnoringCase(a, b) ==
  \/ a = b
  \/ /\ CodeUnit[a] >= 65 /\ CodeUnit[a] <= 90 /\ CodeUnit[b] = CodeUnit[a] + 32
  \/ /\ CodeUnit[b] >= 65 /\ CodeUnit[b] <= 90 /\ CodeUnit[a] = CodeUnit[b] + 32

ContainsIgnoringCase(s, sub) ==
  \E off \in 0..(Len(s) - Len(sub)) :
    \A k \in 1..Len(sub) : SameIgnoringCase(s[off + k], sub[k])

\* The indexes of the tags of allTags that the query matches.
MatchingIndexes(query) ==
  { i \in 1..Len(allTags) :
      /\ ContainsIgnoringCase(allTags[i], query)
      /\ \A k \in 1..Len(featuredTags) : allTags[i] # featuredTags[k] }

\* C9: while the query is not blank, searchResults is the first 10, in the
\* order of allTags, of the tags that contain the query whatever the case and
\* are not featured; its entries are tags of allTags and none occurs twice.
C9_SearchResultsAreTheFirstMatches ==
  (\E i \in 1..Len(searchQuery) : searchQuery[i] # " ") =>
    /\ KeptInOrder(searchResults, allTags,
         { i \in MatchingIndexes(searchQuery) :
             Cardinality({j \in MatchingIndexes(searchQuery) : j <= i}) <= 10 })
    /\ Range(searchResults) \subseteq Range(allTags)
    /\ NoDuplicates(searchResults)

C9_Witness ==
  /\ last.op = "updateSearchQuery"
  /\ posts = ManyTagsPosts
  /\ searchQuery = <<"g", "O">>
  /\ searchResults = << <<"G", "o">>, <<"g", "o">> >>

\* C10: updateSearchQuery with an empty or all-blank query leaves searchResults
\* empty and the panel hidden, whatever they were before.
C10_BlankQueryHidesThePanel ==
  (last.op = "updateSearchQuery" /\ \A i \in 1..Len(searchQuery) : searchQuery[i] = " ") =>
    /\ searchResults = <<>>
    /\ ~showSearchResults

C10_Witness ==
  /\ last.op = "updateSearchQuery"
  /\ last.shown
  /\ searchQuery = <<" ">>
  /\ searchResults = <<>>
  /\ ~showSearchResults
NoCommaInNames(sel) ==
  \A i \in 1..Len(sel) : \A k \in 1..Len(sel[i]) : sel[i][k] # ","

\* C11: for every selectedTags the page reaches whose tag names hold no comma,
\* the URL statement run on a URL whose `tags` parameter was set to
\* selectedTags.join(',') assigns the same sequence of tags again.
C11_JoinedTagsParseBack ==
  NoCommaInNames(selectedTags) =>
    InitializeFromUrl(TRUE, SearchParamsSet(pageUrl, JoinComma(selectedTags)), <<>>)
      = selectedTags

C11_Witness ==
  /\ last.op = "navigated"
  /\ last.by = "selectTagFromSearch"
  /\ pageUrl = TagsUrl(<<"g", "%", "2", "5", "2", "C", "%", "2", "C",
                         "+", "g", "%", "2", "B">>)
  /\ selectedTags = <<PercentTag, SpacedPlusTag>>

\* The positions a comma-separated value is cut at: in front of it, at each
\* comma and behind it.
CutsOf(value) ==
  {0} \cup {i \in 1..Len(value) : value[i] = ","} \cup {Len(value) + 1}

\* The entry of a comma-separated value that starts behind the cut `c`.
PieceAt(value, c) ==
  LET next == CHOOSE d \in CutsOf(value) :
                d > c /\ \A e \in CutsOf(value) : e > c => d <= e
  IN SubSeq(value, c + 1, next - 1)

\* `list` is the entries of `value` that hold a character other than a space,
\* verbatim and in order.
IsTheNonBlankEntries(list, value) ==
  LET keep == { c \in CutsOf(value) \ {Len(value) + 1} :
                  \E k \in 1..Len(PieceAt(value, c)) : PieceAt(value, c)[k] # " " }
  IN /\ Len(list) = Cardinality(keep)
     /\ \A c \in keep : list[Cardinality({d \in keep : d <= c})] = PieceAt(value, c)

\* C12: right after the page is created in a browser on a URL with a `tags`
\* parameter, selectedTags is the entries of the parameter's value that are
\* not blank, verbatim and in order, and filteredPosts is the posts that
\* carry all of them.
C12_MountSelectsTheUrlTags ==
  (last.op = "mount" /\ browser /\ SearchParamsHas(pageUrl)) =>
    /\ IsTheNonBlankEntries(selectedTags, SearchParamsGet(pageUrl))
    /\ KeptInOrder(filteredPosts, posts,
         { i \in 1..Len(posts) :
             \A t \in Range(selectedTags) :
               posts[i].hasTags /\ \E k \in 1..Len(posts[i].tags) : posts[i].tags[k] = t })

C12_Witness ==
  /\ last.op = "mount"
  /\ browser
  /\ pageUrl = TagsUrl(Python \o <<",", ",", "+", ",">> \o DIY)
  /\ selectedTags = <<Python, DIY>>
  /\ filteredPosts = <<>>

\* C13: once the page is created, selectedTags is changed by toggleTag,
\* selectTagFromSearch and clearFilters only: no update of the page store,
\* edit of the search box, focus, blur or timer changes it.
C13_OnlyUserOperationsChangeSelectedTags ==
  [][ last'.op \notin {"toggleTag", "selectTagFromSearch", "clearFilters"}
      => selectedTags' = selectedTags ]_vars

\* C14: when the search box was focused, with a query that is not blank and
\* results to show, after a blur whose delay has not elapsed yet, the panel
\* is still shown once that delay elapses.
C14_FocusCancelsThePendingHide ==
  [][ ( /\ last.op = "handleSearchFocus"
        /\ Truthy(Trim(searchQuery))
        /\ Len(searchResults) > 0
        /\ showSearchResults
        /\ hideTimers > 0
        /\ last'.op = "hideTimer" )
      => showSearchResults' ]_vars

\* C15: handleSearchBlur leaves the panel as it was, and only starts the
\* timer that hides it; while the panel is shown after a blur, a click on
\* any of its items runs selectTagFromSearch for that tag.
C15_BlurLeavesThePanelClickable ==
  last.op = "handleSearchBlur" =>
    /\ showSearchResults = last.shown
    /\ hideTimers > 0
    /\ last.shown =>
         \A tag \in Range(searchResults) : ENABLED selectTagFromSearch(tag)

C15_Witness ==
  /\ last.op = "handleSearchBlur"
  /\ last.shown
  /\ showSearchResults
  /\ searchResults # <<>>
  /\ hideTimers = 1

\* C16: no operation adds an entry to the session history or resets the
\* scroll position: every navigation updateURL starts replaces the current
\* entry and keeps the scroll position.
C16_UrlRewritesReplaceTheHistoryEntry ==
  [][ /\ historyLength' <= historyLength
      /\ scrolledToTop' = scrolledToTop
      /\ pendingNav' # <<>> =>
           pendingNav'[1].replaceState /\ pendingNav'[1].noScroll ]_vars

C16_Witness ==
  /\ last.op = "navigated"
  /\ last.by = "clearFilters"
  /\ ~SearchParamsHas(pageUrl)
  /\ historyLength = 1
  /\ ~scrolledToTop

\* C17: where `browser` is false, whatever the URL holds, selectedTags is
\* empty and filteredPosts is posts; no navigation is under way, and updateURL
\* would start none.
C17_NoUrlSyncOutsideTheBrowser ==
  ~browser =>
    /\ selectedTags = <<>>
    /\ filteredPosts = posts
    /\ pendingNav = <<>>
    /\ UpdateURL(selectedTags, "clearFilters") = <<>>

C17_Witness ==
  /\ ~browser
  /\ posts = ScenarioPosts
  /\ pageUrl = TagsUrl(Python \o <<",">> \o Golang)
  /\ selectedTags = <<>>
  /\ filteredPosts = posts

\* C18: in every reachable state no tag occurs twice in selectedTags.
C18_SelectedTagsHoldNoTagTwice == NoDuplicates(selectedTags)

\* C19: the tags of the URL are taken as they are, whether or not a post
\* carries them, and while selectedTags holds a tag that no post carries,
\* filteredPosts is empty.
C19_UnknownTagsGiveNoPosts ==
  /\ (last.op = "mount" /\ browser /\ SearchParamsHas(pageUrl)) =>
       IsTheNonBlankEntries(selectedTags, SearchParamsGet(pageUrl))
  /\ (\E i \in 1..Len(selectedTags) :
        \A k \in 1..Len(posts) :
          ~posts[k].hasTags \/ selectedTags[i] \notin Range(posts[k].tags)) =>
       filteredPosts = <<>>

C19_Witness ==
  /\ last.op = "mount"
  /\ browser
  /\ posts = OddTagsPosts
  /\ pageUrl = TagsUrl(<<"y", "%", "2">>)
  /\ selectedTags = << <<"y", "%", "2">> >>
  /\ filteredPosts = <<>>

\* C20: handleSearchFocus shows the panel when searchQuery is not blank and
\* searchResults is not empty, and leaves the panel as it was otherwise; it
\* changes neither searchQuery, searchResults, selectedTags, filteredPosts nor
\* the URL.
C20_FocusOnlyShowsThePanel ==
  [][ last'.op = "handleSearchFocus" =>
        /\ showSearchResults' =
             ( \/ showSearchResults
               \/ /\ \E i \in 1..Len(searchQuery) : searchQuery[i] # " "
                  /\ searchResults # <<>> )
        /\ UNCHANGED << searchQuery, searchResults, selectedTags, filteredPosts,
                        pageUrl, pendingNav, historyLength >> ]_vars

C20_Witness ==
  /\ last.op = "handleSearchFocus"
  /\ ~last.shown
  /\ showSearchResults
  /\ searchQuery = <<"g">>
  /\ searchResults = <<Golang>>

\* C21: a button bound to clearFilters ("Clear Filters" or "Show All Posts")
\* is rendered only while selectedTags holds a tag.
C21_ClearButtonsOnlyWithAFilter ==
  (ShowsClearFiltersButton \/ ShowsShowAllPostsButton) => Len(selectedTags) > 0

\* C22: the featured tags on display are the entries of featuredTags that
\* allTags holds, in the order of featuredTags.
C22_FeaturedTagsOnDisplay ==
  KeptInOrder(availableFeaturedTags, featuredTags,
    { i \in 1..Len(featuredTags) :
        \E k \in 1..Len(allTags) : allTags[k] = featuredTags[i] })

C22_Witness ==
  /\ last.op = "mount"
  /\ posts = FeaturedPosts
  /\ allTags = <<DIY, Python, <<"d", "i", "y">> >>
  /\ availableFeaturedTags = <<Python, DIY>>

\* a is before b in the order of strings by UTF-16 code units.
IsBefore(a, b) ==
  \E k \in 1..(Len(b)) :
    /\ k <= Len(a) + 1
    /\ \A j \in 1..(k - 1) : a[j] = b[j]
    /\ k = Len(a) + 1 \/ CodeUnit[a[k]] < CodeUnit[b[k]]

\* C23: allTags holds the tags that occur on a post and no other, each once,
\* in ascending order of strings; a post without a tag list adds nothing.
C23_AllTagsIsTheSortedTagSet ==
  /\ Range(allTags) =
       UNION { Range(posts[k].tags) : k \in {j \in 1..Len(posts) : posts[j].hasTags} }
  /\ \A i, j \in 1..Len(allTags) : i < j => IsBefore(allTags[i], allTags[j])

C23_Witness ==
  /\ last.op = "mount"
  /\ posts = ManyTagsPosts
  /\ Len(allTags) = 13
  /\ allTags[1] = <<"G", "a">>
  /\ allTags[12] = SystemDesign
  /\ allTags[13] = <<"g", "o">>

\* C24: updateSearchQuery changes neither selectedTags, filteredPosts nor the
\* URL, and starts no navigation; whatever operation starts a navigation, the
\* URL it asks for is made of selectedTags alone.
C24_SearchQueryStaysOutOfTheUrl ==
  [][ /\ last'.op = "updateSearchQuery" =>
           UNCHANGED << selectedTags, filteredPosts, pageUrl, pendingNav,
                        historyLength >>
      /\ (pendingNav' # pendingNav /\ pendingNav' # <<>>) =>
           UrlAgreesWith(pendingNav'[1].url, selectedTags') ]_vars

C24_Witness ==
  /\ last.op = "updateSearchQuery"
  /\ searchQuery = <<"y">>
  /\ selectedTags = <<Golang>>
  /\ pendingNav # <<>>
  /\ ~SearchParamsHas(pageUrl)

\* C25: in every reachable state the results panel is shown only if
\* searchQuery is not blank and searchResults is not empty.
C25_PanelShownOnlyWithResults ==
  showSearchResults =>
    /\ \E i \in 1..Len(searchQuery) : searchQuery[i] # " "
    /\ searchResults # <<>>

C25_Witness ==
  /\ last.op = "hideTimer"
  /\ hideTimers > 0
  /\ searchQuery = <<"g">>
  /\ searchResults # <<>>
  /\ ~showSearchResults

\* C26: when toggleTag has run while the navigation that selectTagFromSearch
\* started was under way, selectedTags is the same after the page store has
\* delivered that navigation's URL.
C26_ToggleSurvivesThePendingRewrite ==
  [][ ( /\ last.op = "toggleTag"
        /\ pendingNav # <<>>
        /\ pendingNav[1].by = "selectTagFromSearch"
        /\ last'.op = "navigated" )
      => selectedTags' = selectedTags ]_vars

\* C27: while a blur's timer is pending, a timer's callback runs in the end
\* and leaves the panel hidden; each handleSearchBlur adds a timer of its own,
\* each callback ends one timer, hides the panel and changes nothing else,
\* and a hidden panel is shown again by an edit of the search box or a focus
\* only.
C27_BlurHidesThePanelInTheEnd ==
  /\ (hideTimers > 0) ~> (last.op = "hideTimer" /\ ~showSearchResults)
  /\ [][ /\ last'.op = "handleSearchBlur" => hideTimers' = hideTimers + 1
         /\ last'.op = "hideTimer" =>
              /\ hideTimers' = hideTimers - 1
              /\ ~showSearchResults'
              /\ UNCHANGED << searchQuery, searchResults, selectedTags,
                              filteredPosts, pageUrl, pendingNav >>
         /\ (~showSearchResults /\ showSearchResults') =>
              last'.op \in {"updateSearchQuery", "handleSearchFocus"} ]_vars

C27_Witness ==
  /\ last.op = "hideTimer"
  /\ last.shown
  /\ ~showSearchResults
  /\ hideTimers = 1
  /\ searchResults # <<>>

\* `href` is the blog's path with `name` percent-escaped as the value of
\* `tags`: it is made of letters, digits, `-` and escapes, and reads back as
\* `name`.
IsBlogLinkFor(href, name) ==
  /\ href # <<>>
  /\ Head(href) = BlogTagsPath
  /\ \A k \in 2..Len(href) : IsAlphaNum(href[k]) \/ href[k] \in {"-", "%"}
  /\ FormDecode(Tail(href)) = name

\* The link of a feature card: the blog's path with the escaped name for a
\* card with a name that is not empty, the empty string otherwise.
CardLinkIsRight ==
  last.op \in {"card", "mount"} =>
    IF last.named /\ last.tag # <<>>
    THEN IsBlogLinkFor(last.href, last.tag)
    ELSE last.href = <<>>

\* C28 as stated: the link of a feature card is right, and the blog page
\* entered in a browser through the link of a card whose name is not empty and
\* holds no comma has selectedTags = [name].
C28_CardLinkSelectsAnyName ==
  /\ CardLinkIsRight
  /\ ( /\ last.op = "mount" /\ browser
       /\ last.named /\ last.tag # <<>>
       /\ \A k \in 1..Len(last.tag) : last.tag[k] # "," )
     => selectedTags = <<last.tag>>

\* C28 as amended: the same, for a card whose name holds a character other
\* than white space, and no comma.
C28_CardLinkSelectsANameThatIsNotBlank ==
  /\ CardLinkIsRight
  /\ ( /\ last.op = "mount" /\ browser
       /\ last.named
       /\ \E k \in 1..Len(last.tag) : last.tag[k] # " "
       /\ \A k \in 1..Len(last.tag) : last.tag[k] # "," )
     => selectedTags = <<last.tag>>

C28_Witness ==
  /\ last.op = "mount"
  /\ browser
  /\ last.tag = SystemDesign
  /\ last.href = <<BlogTagsPath, "S", "y", "s", "t", "e", "m", "%", "2", "0",
                   "D", "e", "s", "i", "g", "n">>
  /\ selectedTags = <<SystemDesign>>
  /\ filteredPosts = <<posts[1]>>

\* The two fetches of loadData have failed: a promise was rejected, a
\* response was not ok, or the text of an ok response could not be read.
FetchFailed ==
  \/ \E i \in 1..2 : responses[i].outcome # "ok"
  \/ responses[1].textFails
  \/ responses[2].textFails

\* C29: `loading` is true until loadData ends and false from then on, after
\* one assignment; `error` is set only when a fetch has failed or was not ok;
\* a chart is drawn only when both fetches went well, once `loading` is false
\* and while the container is bound; `loading` never goes back to true.
C29_ChartLoadsOneWay ==
  /\ [] ( /\ chartPc # "done" => (loading /\ loadingWrites = 0)
          /\ chartPc = "done" => (~loading /\ loadingWrites = 1)
          /\ error # NoError => FetchFailed
          /\ drawn > 0 => (~FetchFailed /\ error = NoError /\ ~loading) )
  /\ [][ /\ loading' => loading
         /\ drawn' # drawn =>
              (chartContainer /\ ~loading /\ chartPc = "done" /\ drawn' = drawn + 1)
         /\ (drawTimer /\ ~drawTimer' /\ ~chartContainer) => drawn' = drawn ]_vars

C29_Witness ==
  /\ chartPc = "done"
  /\ ~loading
  /\ loadingWrites = 1
  /\ error = NoError
  /\ chartContainer
  /\ ~drawTimer
  /\ drawn = 1


====
